---- MODULE Spec2Model ----
(***************************************************************************)
(* Usage-telemetry emission of @silyze/browsary-ai-provider                *)
(* (src/lib/index.ts): the helpers emitStart, emitEnd, emitStartChecked,   *)
(* emitEndChecked and AiProvider.callFunctionWithTelemetry, run against a  *)
(* usage monitor and a bound function-call callback whose behaviour is     *)
(* chosen nondeterministically at every invocation.                        *)
(*                                                                         *)
(* Spec         callFunctionWithTelemetry calls on one provider            *)
(* FairSpec     Spec, with every continuation of an await eventually run   *)
(* HelperSpec   a client calling emitStart and emitEnd, one after another  *)
(* CheckedSpec  a client calling emitStartChecked and emitEndChecked       *)
(***************************************************************************)
EXTENDS Integers, Sequences, FiniteSets, TLC

\* ------------------------------------------------------------------ bounds
\* Date.now() is read from a clock that runs from 0 to MaxTime.
MaxTime == 1
\* Number of callFunctionWithTelemetry calls that may be in flight together.
NumCalls == 1
\* Number of direct helper calls a client makes in HelperSpec.
MaxHelperCalls == 2

Calls == 1..NumCalls
Times == 0..MaxTime

\* ------------------------------------------------------------ JS values
\* An optional number (startedAt?: number, started?: number): undefined is
\* the empty tuple, the number n is <<n>>.
None == <<>>
Some(n) == <<n>>
OptTimes == {None} \cup {Some(t) : t \in Times}

\* JS objects are functions from their own keys to values.  base.k of a key
\* the object does not own is undefined.
Field(obj, k) == IF k \in DOMAIN obj THEN obj[k] ELSE None

\* { ...obj, ...base }: every own key of base overrides the key of obj.
Spread(obj, base) ==
    [k \in (DOMAIN obj) \cup (DOMAIN base) |->
        IF k \in DOMAIN base THEN base[k] ELSE obj[k]]

\* a ?? b
Coalesce(a, b) == IF a = None THEN b ELSE a

\* ------------------------------------------------------ event construction
\* emitStartChecked: { phase: "start", startedAt: nowMs(), ...base }
emitStartChecked_event(base, t) ==
    Spread([phase |-> "start", startedAt |-> Some(t)], base)

\* emitEndChecked: { phase: "end", endedAt: nowMs(),
\*                   startedAt: started ?? base.startedAt, ...base }
emitEndChecked_event(base, started, t) ==
    Spread([phase |-> "end", endedAt |-> Some(t),
            startedAt |-> Coalesce(started, Field(base, "startedAt"))], base)

\* emitStart: { phase: "start", startedAt: nowMs(), ...base }
emitStart_event(base, t) ==
    Spread([phase |-> "start", startedAt |-> Some(t)], base)

\* emitEnd: the same object literal as emitEndChecked
emitEnd_event(base, started, t) ==
    Spread([phase |-> "end", endedAt |-> Some(t),
            startedAt |-> Coalesce(started, Field(base, "startedAt"))], base)

\* ------------------------------------------------------------- the monitor
\* UsageMonitor.onEvent(event): void | boolean | Promise<void> | Promise<boolean>.
\* One invocation either throws synchronously, returns a value, or returns a
\* promise that is pending and may later be fulfilled with a value or rejected.
MonitorValues == {"undefined", "true", "false"}
MonitorError == "monitorError"
NoMonitorCall == [st |-> "none", val |-> "none"]
OnEventBehaviours ==
    {[st |-> "threw", val |-> MonitorError], [st |-> "pending", val |-> "none"]}
    \cup {[st |-> "returned", val |-> v] : v \in MonitorValues}
OnEventSettlements ==
    {[st |-> "rejected", val |-> MonitorError]}
    \cup {[st |-> "fulfilled", val |-> v] : v \in MonitorValues}

\* class NoopUsageMonitor: onEvent(_event) {} returns undefined, at once.
NoopUsageMonitor == "NoopUsageMonitor"
\* Mutant of NoopUsageMonitor_onEvent: the default monitor answers false.
NoopUsageMonitor_onEvent_false == {[st |-> "returned", val |-> "false"]}

NoopUsageMonitor_onEvent == {[st |-> "returned", val |-> "undefined"]}

\* The optional third argument of the provider's constructor: left out, or a
\* monitor of the client, which may behave in any way the interface allows.
ClientMonitor == "ClientMonitor"
MonitorArgs == {"undefined", ClientMonitor}

\* constructor: this.#monitor = monitor ?? new NoopUsageMonitor()
constructor_monitor(m) == IF m = "undefined" THEN NoopUsageMonitor ELSE m

\* this.monitor.onEvent(event): what one invocation can do.
onEvent(mtr) ==
    IF mtr = NoopUsageMonitor THEN NoopUsageMonitor_onEvent
    ELSE OnEventBehaviours

\* `await f(...)` inside the try block of an async function: a synchronous
\* throw of f is a rejection of the awaited expression, a plain value v is
\* awaited as Promise.resolve(v), a promise is awaited as it is.
Await(m) ==
    IF m.st = "threw" THEN [st |-> "rejected", val |-> m.val]
    ELSE IF m.st = "returned" THEN [st |-> "fulfilled", val |-> m.val]
    ELSE m
\* Mutant of Awaited: the promise is not awaited, the continuation runs at once.
Awaited_notAwaited(m) == TRUE

\* Mutant of Awaited: the continuation is attached with .then(onFulfilled)
\* alone, so it never runs when the promise rejects.
Awaited_onlyFulfilled(m) == m.st = "fulfilled"

\* The continuation of the await can run once that promise has settled ...
Awaited(m) == m.st \in {"fulfilled", "rejected"}
\* ... and it enters the catch block when the promise rejected.
AwaitThrows(m) == m.st = "rejected"

\* Mutant of emitStartChecked_result: proceed tests `res === true`, so a
\* monitor returning nothing vetoes.
emitStartChecked_result_onlyTrue(event, m) ==
    IF AwaitThrows(m)
    THEN [st |-> "resolved", event |-> event, proceed |-> FALSE, err |-> "none"]
    ELSE [st |-> "resolved", event |-> event, proceed |-> (m.val = "true"),
          err |-> "none"]

\* emitStartChecked, try/catch: what the returned promise settles with.
emitStartChecked_result(event, m) ==
    IF AwaitThrows(m)
    THEN [st |-> "resolved", event |-> event, proceed |-> FALSE, err |-> "none"]
    ELSE [st |-> "resolved", event |-> event, proceed |-> (m.val # "false"),
          err |-> "none"]

\* Mutant of emitEndChecked_result: no try/catch around the await, so a
\* failure of the monitor rejects the helper's promise.
emitEndChecked_result_noCatch(event, m) ==
    IF AwaitThrows(m)
    THEN [st |-> "rejected", event |-> event, proceed |-> FALSE, err |-> m.val]
    ELSE [st |-> "resolved", event |-> event, proceed |-> (m.val # "false"),
          err |-> "none"]

\* emitEndChecked, try/catch: what the returned promise settles with.
emitEndChecked_result(event, m) ==
    IF AwaitThrows(m)
    THEN [st |-> "resolved", event |-> event, proceed |-> FALSE, err |-> "none"]
    ELSE [st |-> "resolved", event |-> event, proceed |-> (m.val # "false"),
          err |-> "none"]

NoResult == [st |-> "none"]

\* ------------------------------------------------- the function-call callback
\* this.functionCall(context, name, params, abortController) => any
Names == {"click"}
Values == {"false", "undefined", "ok"}
Errors == {"e1"}
Handles == {"none", "ac"}
NoArgs == [context |-> "none", name |-> "none", params |-> "none",
           abortController |-> "none"]
NoFunctionCall == [st |-> "none", val |-> "none"]
FunctionCallBehaviours ==
    {[st |-> "pending", val |-> "none"]}
    \cup {[st |-> "threw", val |-> e] : e \in Errors}
FunctionCallSettlements ==
    {[st |-> "fulfilled", val |-> v] : v \in Values}
    \cup {[st |-> "rejected", val |-> e] : e \in Errors}

Pending == [st |-> "pending", val |-> "none"]

\* No call of a checked helper by the client is under way.
NoCheckedCall ==
    [helper |-> "none", base |-> <<>>, started |-> None, event |-> <<>>,
     how |-> "none", mon |-> NoMonitorCall, ret |-> NoResult]


\* ------------------------------------------------------------------- state
VARIABLES
    now,        \* the clock nowMs() reads
    pc,         \* pc[c]: where call c of callFunctionWithTelemetry stands
    args,       \* args[c]: (context, name, params, abortController) as passed
    mon,        \* mon[c]: the monitor invocation call c is awaiting
    startRes,   \* startRes[c]: what `await emitStartChecked(...)` gave
    endRes,     \* endRes[c]: what `await emitEndChecked(...)` gave (discarded)
    fc,         \* fc[c]: the invocation of this.functionCall by call c
    received,   \* received[c]: the argument lists this.functionCall got
    err,        \* err[c]: the error bound in the catch block
    outcome,    \* outcome[c]: how the promise of call c settled
    sent,       \* sent[c]: the events call c handed to monitor.onEvent
    hist,       \* hist[c]: the steps of call c, in order (history)
    hcalls,     \* direct helper calls of the client, in call order
    observed,   \* the events the client's monitor has received, in order
    unhandled,  \* promise rejections nobody handled
    chk,        \* the client's call of a checked helper, if one is under way
    monitor     \* this.#monitor of the provider

callVars ==
    <<pc, args, mon, startRes, endRes, fc, received, err, outcome, sent, hist>>
helperVars == <<hcalls, observed, unhandled>>
vars ==
    <<now, pc, args, mon, startRes, endRes, fc, received, err, outcome, sent,
      hist, hcalls, observed, unhandled, chk, monitor>>

\* A provider has been constructed and the client is about to make the calls
\* `calls` on it; nothing has been called yet.
Constructed(calls) ==
    /\ now = 0
    /\ pc = [c \in calls |-> "idle"]
    /\ args = [c \in calls |-> NoArgs]
    /\ mon = [c \in calls |-> NoMonitorCall]
    /\ startRes = [c \in calls |-> NoResult]
    /\ endRes = [c \in calls |-> NoResult]
    /\ fc = [c \in calls |-> NoFunctionCall]
    /\ received = [c \in calls |-> <<>>]
    /\ err = [c \in calls |-> "none"]
    /\ outcome = [c \in calls |-> Pending]
    /\ sent = [c \in calls |-> <<>>]
    /\ hist = [c \in calls |-> <<>>]
    /\ hcalls = <<>>
    /\ observed = <<>>
    /\ unhandled = 0
    /\ chk = NoCheckedCall
    /\ \E m \in MonitorArgs : monitor = constructor_monitor(m)

Init == Constructed(Calls)

\* Date.now() moves on.  The clock starts with the first event that is
\* stamped and is followed for as long as a stamp can still be taken from it
\* and compared with an earlier one: while a call is in flight, or between
\* two helper calls of the client.
Tick ==
    /\ now < MaxTime
    /\ \/ \E c \in DOMAIN pc : pc[c] \notin {"idle", "done"}
       \/ (0 < Len(hcalls) /\ Len(hcalls) < MaxHelperCalls)
    /\ now' = now + 1
    /\ UNCHANGED <<callVars, helperVars, chk, monitor>>

\* What the history records when monitor.onEvent(event) is called with a
\* `phase` event: the receipt, and the end of the monitor's handling when the
\* call returned a plain value or threw.
Receipt(phase, m) ==
    IF m.st = "pending" THEN <<phase \o ".recv">>
    ELSE <<phase \o ".recv", phase \o ".settled">>

\* -------------------------------------------- callFunctionWithTelemetry
\* The base the start event is built from: source and metadata: { name }.
callFunctionWithTelemetry_startBase(name) ==
    [source |-> "function.call", metadata |-> name]

\* Mutant of callFunctionWithTelemetry_endBase: the base takes the start
\* event's endedAt, which a start event does not have.
callFunctionWithTelemetry_endBase_endedAt(name, res) ==
    [source |-> "function.call", metadata |-> name,
     startedAt |-> Field(res.event, "endedAt")]

\* The base of the end event, on both paths.
callFunctionWithTelemetry_endBase(name, res) ==
    [source |-> "function.call", metadata |-> name,
     startedAt |-> res.event.startedAt]

\* The third argument of emitEndChecked, on both paths.
callFunctionWithTelemetry_endStarted(res) == res.event.startedAt

\* this.functionCall(context, name, params, abortController): the arguments
\* the callback is invoked with, given those of the call.
functionCall_args(a) ==
    [context |-> a.context, name |-> a.name, params |-> a.params,
     abortController |-> a.abortController]

\* Mutant of Vetoed: the veto is not looked at.
Vetoed_ignored(res) == FALSE

\* if (!startRes.proceed)
Vetoed(res) == ~res.proceed

\* return false;
VetoReturn == "false"

\* Mutant of Returned: `return out || false`, a falsy result becomes false.
Returned_orFalse(out) == IF out \in {"false", "undefined"} THEN "false" ELSE out

\* return out;
Returned(out) == out

\* Mutant of Rethrown: the error is wrapped in a new one.
Rethrown_wrapped(e) == "Error: " \o e

\* Mutant of Rethrown: the error of the end emission's bookkeeping replaces it.
Rethrown_replaced(e) == MonitorError

\* throw err;
Rethrown(e) == e

\* The call up to its first await: emitStartChecked builds the start event,
\* hands it to monitor.onEvent and awaits what that returned.
callFunctionWithTelemetry_invoke(c, n, h) ==
    /\ pc[c] = "idle"
    /\ \E m \in onEvent(monitor) :
        LET event == emitStartChecked_event(
                         callFunctionWithTelemetry_startBase(n), now)
        IN  /\ args' = [args EXCEPT ![c] =
                    [context |-> "ctx", name |-> n, params |-> "params",
                     abortController |-> h]]
            /\ sent' = [sent EXCEPT ![c] = Append(@, event)]
            /\ mon' = [mon EXCEPT ![c] = Await(m)]
            /\ hist' = [hist EXCEPT ![c] = @ \o Receipt("start", m)]
    /\ pc' = [pc EXCEPT ![c] = "awaitStart"]
    /\ UNCHANGED <<now, startRes, endRes, fc, received, err, outcome,
                   helperVars, chk, monitor>>

\* A call of callFunctionWithTelemetry by the client, with some function name
\* and with or without an AbortController.
callFunctionWithTelemetry(c) ==
    \E n \in Names, h \in Handles : callFunctionWithTelemetry_invoke(c, n, h)

\* The promise monitor.onEvent returned to call c settles.
MonitorSettles(c) ==
    /\ pc[c] \in {"awaitStart", "awaitEndTry", "awaitEndCatch"}
    /\ mon[c].st = "pending"
    /\ \E m \in OnEventSettlements : mon' = [mon EXCEPT ![c] = m]
    /\ hist' = [hist EXCEPT ![c] =
            Append(@, IF pc[c] = "awaitStart" THEN "start.settled"
                      ELSE "end.settled")]
    /\ UNCHANGED <<now, pc, args, startRes, endRes, fc, received, err, outcome,
                   sent, helperVars, chk, monitor>>

\* Settling the promise of call c.
Settle(c, st, val) ==
    /\ outcome' = [outcome EXCEPT ![c] = [st |-> st, val |-> val]]
    /\ pc' = [pc EXCEPT ![c] = "done"]
    /\ hist' = [hist EXCEPT ![c] = Append(@, "call.settled")]

\* `const startRes = await emitStartChecked(...)` completes; a veto returns
\* false, otherwise this.functionCall is invoked and awaited inside try.
ResumeAfterStart(c) ==
    LET res == emitStartChecked_result(sent[c][Len(sent[c])], mon[c])
    IN  /\ pc[c] = "awaitStart"
        /\ Awaited(mon[c])
        /\ startRes' = [startRes EXCEPT ![c] = res]
        /\ mon' = [mon EXCEPT ![c] = NoMonitorCall]
        /\ IF res.st = "rejected"
           THEN /\ Settle(c, "rejected", res.err)
                /\ UNCHANGED <<fc, received>>
           ELSE IF Vetoed(res)
           THEN /\ Settle(c, "resolved", VetoReturn)
                /\ UNCHANGED <<fc, received>>
           ELSE \E b \in FunctionCallBehaviours :
                /\ fc' = [fc EXCEPT ![c] = Await(b)]
                /\ received' = [received EXCEPT ![c] =
                        Append(@, functionCall_args(args[c]))]
                /\ hist' = [hist EXCEPT ![c] = @ \o
                        (IF b.st = "pending" THEN <<"fn.invoked">>
                         ELSE <<"fn.invoked", "fn.settled">>)]
                /\ pc' = [pc EXCEPT ![c] = "awaitFunctionCall"]
                /\ UNCHANGED outcome
        /\ UNCHANGED <<now, args, endRes, err, sent, helperVars, chk, monitor>>

\* The promise this.functionCall returned to call c settles.
FunctionCallSettles(c) ==
    /\ pc[c] = "awaitFunctionCall"
    /\ fc[c].st = "pending"
    /\ \E b \in FunctionCallSettlements : fc' = [fc EXCEPT ![c] = b]
    /\ hist' = [hist EXCEPT ![c] = Append(@, "fn.settled")]
    /\ UNCHANGED <<now, pc, args, mon, startRes, endRes, received, err, outcome,
                   sent, helperVars, chk, monitor>>

\* The caller triggers the AbortController it passed while this.functionCall
\* is in flight.  callFunctionWithTelemetry hands the controller on and never
\* reads it; what the callback does on cancellation is the callback's choice.
Abort(c) ==
    /\ pc[c] = "awaitFunctionCall"
    /\ fc[c].st = "pending"
    /\ args[c].abortController = "ac"
    /\ "abort" \notin {hist[c][i] : i \in DOMAIN hist[c]}
    /\ hist' = [hist EXCEPT ![c] = Append(@, "abort")]
    /\ UNCHANGED <<now, pc, args, mon, startRes, endRes, fc, received, err,
                   outcome, sent, helperVars, chk, monitor>>

\* Mutant of callFunctionWithTelemetry_startRes: the start result is kept in
\* a field of the provider, where another call's result replaces it.
callFunctionWithTelemetry_startRes_shared(c) ==
    IF \E d \in DOMAIN startRes : d # c /\ startRes[d].st = "resolved"
    THEN startRes[CHOOSE d \in DOMAIN startRes :
                      d # c /\ startRes[d].st = "resolved"]
    ELSE startRes[c]

\* `const startRes`: a local of the invocation, so every call reads its own.
callFunctionWithTelemetry_startRes(c) == startRes[c]

\* emitEndChecked as called on both paths: builds the end event, hands it to
\* monitor.onEvent and awaits what that returned.
EmitEnd(c, m) ==
    LET event == emitEndChecked_event(
                     callFunctionWithTelemetry_endBase(
                         args[c].name, callFunctionWithTelemetry_startRes(c)),
                     callFunctionWithTelemetry_endStarted(
                         callFunctionWithTelemetry_startRes(c)), now)
    IN  /\ sent' = [sent EXCEPT ![c] = Append(@, event)]
        /\ mon' = [mon EXCEPT ![c] = Await(m)]
        /\ hist' = [hist EXCEPT ![c] = @ \o Receipt("end", m)]

\* After the callback: the end event is emitted, from the try block when the
\* callback's promise was fulfilled, from the catch block when it threw or
\* rejected.
ResumeAfterFunctionCall(c) ==
    /\ pc[c] = "awaitFunctionCall"
    /\ Awaited(fc[c])
    /\ \E m \in onEvent(monitor) : EmitEnd(c, m)
    /\ IF fc[c].st = "fulfilled"
       THEN /\ pc' = [pc EXCEPT ![c] = "awaitEndTry"]
            /\ UNCHANGED err
       ELSE /\ pc' = [pc EXCEPT ![c] = "awaitEndCatch"]
            /\ err' = [err EXCEPT ![c] = fc[c].val]
    /\ UNCHANGED <<now, args, startRes, endRes, fc, received, outcome,
                   helperVars, chk, monitor>>

\* `await emitEndChecked(...)` completes: return out from the try block, throw
\* err from the catch block.  A rejection of the awaited promise inside try
\* enters the catch block, inside catch it rejects the call.
ResumeAfterEnd(c) ==
    LET res == emitEndChecked_result(sent[c][Len(sent[c])], mon[c])
    IN  /\ pc[c] \in {"awaitEndTry", "awaitEndCatch"}
        /\ Awaited(mon[c])
        /\ endRes' = [endRes EXCEPT ![c] = res]
        /\ IF pc[c] = "awaitEndTry" /\ res.st = "rejected"
           THEN /\ \E m \in onEvent(monitor) : EmitEnd(c, m)
                /\ pc' = [pc EXCEPT ![c] = "awaitEndCatch"]
                /\ err' = [err EXCEPT ![c] = res.err]
                /\ UNCHANGED outcome
           ELSE /\ IF pc[c] = "awaitEndTry"
                   THEN Settle(c, "resolved", Returned(fc[c].val))
                   ELSE IF res.st = "rejected"
                   THEN Settle(c, "rejected", res.err)
                   ELSE Settle(c, "rejected", Rethrown(err[c]))
                /\ mon' = [mon EXCEPT ![c] = NoMonitorCall]
                /\ UNCHANGED <<sent, err>>
        /\ UNCHANGED <<now, args, startRes, fc, received, helperVars, chk, monitor>>

Next ==
    \/ Tick
    \/ \E c \in Calls : callFunctionWithTelemetry(c)
    \/ \E c \in Calls : MonitorSettles(c)
    \/ \E c \in Calls : ResumeAfterStart(c)
    \/ \E c \in Calls : FunctionCallSettles(c)
    \/ \E c \in Calls : Abort(c)
    \/ \E c \in Calls : ResumeAfterFunctionCall(c)
    \/ \E c \in Calls : ResumeAfterEnd(c)

Spec == Init /\ [][Next]_vars

\* ----------------------------------------- calls in flight at the same time
\* Two calls made on the same provider, each for a function of its own choice,
\* in any interleaving of their steps; no AbortController is passed.
ConcurrentCalls == {"call1", "call2"}
ConcurrentNames == {"click", "goto"}

ConcurrentInit == Constructed(ConcurrentCalls)

ConcurrentNext ==
    \/ Tick
    \/ \E c \in ConcurrentCalls, n \in ConcurrentNames :
            callFunctionWithTelemetry_invoke(c, n, "none")
    \/ \E c \in ConcurrentCalls : MonitorSettles(c)
    \/ \E c \in ConcurrentCalls : ResumeAfterStart(c)
    \/ \E c \in ConcurrentCalls : FunctionCallSettles(c)
    \/ \E c \in ConcurrentCalls : ResumeAfterFunctionCall(c)
    \/ \E c \in ConcurrentCalls : ResumeAfterEnd(c)

ConcurrentSpec == ConcurrentInit /\ [][ConcurrentNext]_vars

\* ------------------------------------------- the helpers, called directly
\* Omit<UsageEventStart, "phase" | "startedAt">, as in the README's example.
StartBases == {[source |-> "model.prompt", model |-> "gpt-4o"]}

\* Omit<UsageEventEnd, "phase" | "endedAt">: startedAt is optional, so a base
\* may not own the key, own it with the value undefined, or own a number.
EndBases ==
    {[source |-> "model.prompt", model |-> "gpt-4o"]}
    \cup {[source |-> "model.prompt", model |-> "gpt-4o", startedAt |-> s] :
             s \in OptTimes}

\* `.catch(() => {})` is attached to the promise emitStart and emitEnd detach.
CatchHandler == TRUE

\* Promise.resolve(monitor.onEvent(evt)).catch(() => {}); return evt;
\* The argument is evaluated first: when onEvent throws, the exception leaves
\* the helper and nothing is returned.  Otherwise the promise is detached (its
\* value is never read, only its settlement is kept here) and evt is returned.
Unchecked(helper, base, started, evt, m) ==
    /\ Len(hcalls) < MaxHelperCalls
    /\ observed' = Append(observed, evt)
    /\ hcalls' = Append(hcalls,
            [helper |-> helper, base |-> base, started |-> started,
             detached |-> IF m.st = "threw" THEN "none" ELSE Await(m).st,
             ret |-> IF m.st = "threw"
                     THEN [kind |-> "threw", val |-> [error |-> m.val]]
                     ELSE [kind |-> "returned", val |-> evt]])
    /\ UNCHANGED <<now, callVars, unhandled, chk, monitor>>

emitStart ==
    \E base \in StartBases, m \in OnEventBehaviours :
        Unchecked("emitStart", base, None, emitStart_event(base, now), m)

emitEnd ==
    \E base \in EndBases, started \in OptTimes, m \in OnEventBehaviours :
        Unchecked("emitEnd", base, started,
                  emitEnd_event(base, started, now), m)

\* The promise the monitor returned to an unchecked helper settles; a
\* rejection is taken by the catch handler.
DetachedSettles(i) ==
    /\ hcalls[i].detached = "pending"
    /\ \E m \in OnEventSettlements :
        /\ hcalls' = [hcalls EXCEPT ![i].detached = m.st]
        /\ unhandled' =
              IF m.st = "rejected" /\ ~CatchHandler
              THEN unhandled + 1 ELSE unhandled
    /\ UNCHANGED <<now, callVars, observed, chk, monitor>>

HelperNext ==
    \/ Tick
    \/ emitStart
    \/ emitEnd
    \/ \E i \in DOMAIN hcalls : DetachedSettles(i)

HelperSpec == Init /\ [][HelperNext]_vars

\* The checked helpers: one call of the client at a time.
Checked(helper, base, started, evt, m) ==
    /\ chk.helper = "none"
    /\ chk' = [helper |-> helper, base |-> base, started |-> started,
               event |-> evt, how |-> m.st, mon |-> Await(m),
               ret |-> [st |-> "pending"]]
    /\ UNCHANGED <<now, callVars, helperVars, monitor>>

emitStartChecked ==
    \E base \in StartBases, m \in OnEventBehaviours :
        Checked("emitStartChecked", base, None,
                emitStartChecked_event(base, now), m)

emitEndChecked ==
    \E base \in EndBases, started \in OptTimes, m \in OnEventBehaviours :
        Checked("emitEndChecked", base, started,
                emitEndChecked_event(base, started, now), m)

\* The promise the monitor returned to the checked helper settles.
CheckedMonitorSettles ==
    /\ chk.mon.st = "pending"
    /\ \E m \in OnEventSettlements : chk' = [chk EXCEPT !.mon = m]
    /\ UNCHANGED <<now, callVars, helperVars, monitor>>

\* `await monitor.onEvent(event)` completes and the helper's promise settles.
CheckedResume ==
    /\ chk.helper # "none"
    /\ chk.ret.st = "pending"
    /\ Awaited(chk.mon)
    /\ chk' = [chk EXCEPT !.ret =
            IF chk.helper = "emitStartChecked"
            THEN emitStartChecked_result(chk.event, chk.mon)
            ELSE emitEndChecked_result(chk.event, chk.mon)]
    /\ UNCHANGED <<now, callVars, helperVars, monitor>>

\* The client has its result and may call again.
CheckedDone ==
    /\ chk.helper # "none"
    /\ chk.ret.st \notin {"pending", "none"}
    /\ chk' = NoCheckedCall
    /\ UNCHANGED <<now, callVars, helperVars, monitor>>

CheckedTick ==
    /\ now < MaxTime
    /\ now' = now + 1
    /\ UNCHANGED <<callVars, helperVars, chk, monitor>>

CheckedNext ==
    \/ CheckedTick
    \/ emitStartChecked
    \/ emitEndChecked
    \/ CheckedMonitorSettles
    \/ CheckedResume
    \/ CheckedDone

CheckedSpec == Init /\ [][CheckedNext]_vars

\* Every continuation of an await runs once the awaited promise has settled
\* (the microtask queue is drained); whether the monitor's or the callback's
\* promise ever settles is up to them.
FairSpec ==
    /\ Spec
    /\ \A c \in Calls :
        /\ WF_vars(ResumeAfterStart(c))
        /\ WF_vars(ResumeAfterFunctionCall(c))
        /\ WF_vars(ResumeAfterEnd(c))

\* ------------------------------------------------------- settling
\* The client either makes calls of callFunctionWithTelemetry or calls an
\* unchecked helper once; the two share no state but the clock.
SettlingNext ==
    \/ Tick
    \/ \E c \in Calls : hcalls = <<>> /\ callFunctionWithTelemetry(c)
    \/ \E c \in Calls : MonitorSettles(c)
    \/ \E c \in Calls : ResumeAfterStart(c)
    \/ \E c \in Calls : FunctionCallSettles(c)
    \/ \E c \in Calls : Abort(c)
    \/ \E c \in Calls : ResumeAfterFunctionCall(c)
    \/ \E c \in Calls : ResumeAfterEnd(c)
    \/ (hcalls = <<>> /\ (\A c \in Calls : pc[c] = "idle") /\ emitStart)
    \/ (hcalls = <<>> /\ (\A c \in Calls : pc[c] = "idle") /\ emitEnd)
    \/ \E i \in DOMAIN hcalls : DetachedSettles(i)

\* Every await continuation whose promise has settled is run by the event
\* loop; every promise the monitor returned to a callFunctionWithTelemetry
\* call settles, and so does the promise of the callback.  The promise the
\* monitor returned to an unchecked helper may stay pending for ever.
SettlingSpec ==
    /\ Init
    /\ [][SettlingNext]_vars
    /\ \A c \in Calls :
        /\ WF_vars(ResumeAfterStart(c))
        /\ WF_vars(ResumeAfterFunctionCall(c))
        /\ WF_vars(ResumeAfterEnd(c))
        /\ WF_vars(MonitorSettles(c))
        /\ WF_vars(FunctionCallSettles(c))

\* ------------------------------------------------------------ properties
\* Position of the first step `l` in the history of call c, 0 if there is none.
Idx(c, l) ==
    IF \E i \in DOMAIN hist[c] : hist[c][i] = l
    THEN CHOOSE i \in DOMAIN hist[c] :
            hist[c][i] = l /\ \A j \in 1..(i - 1) : hist[c][j] # l
    ELSE 0
Happened(c, l) == Idx(c, l) > 0
Before(c, a, b) == Happened(c, a) /\ Happened(c, b) /\ Idx(c, a) < Idx(c, b)
Settled(c) == outcome[c].st # "pending"
EndEvents(c) == {i \in DOMAIN sent[c] : sent[c][i].phase = "end"}

\* C1: when the checked start emission of a call yields proceed = false, the
\* bound callback is never invoked for that call and the call resolves with
\* the value false; it does not reject.
C1_VetoReturnsFalseWithoutCalling ==
    \A c \in Calls :
        (startRes[c].st = "resolved" /\ ~startRes[c].proceed)
        => /\ received[c] = <<>>
           /\ fc[c] = NoFunctionCall
           /\ outcome[c] = [st |-> "resolved", val |-> "false"]

C1_Witness ==
    \E c \in Calls :
        /\ startRes[c].st = "resolved"
        /\ ~startRes[c].proceed
        /\ pc[c] = "done"

\* C2: when the start is admitted and the bound callback throws or rejects
\* with error e, the monitor has received an end event for the call before the
\* call settles, and the call rejects with e itself.
C2_CallbackErrorRethrownAfterEnd ==
    \A c \in Calls :
        (Settled(c) /\ fc[c].st = "rejected")
        => /\ outcome[c] = [st |-> "rejected", val |-> fc[c].val]
           /\ EndEvents(c) # {}
           /\ Before(c, "fn.settled", "end.recv")
           /\ Before(c, "end.recv", "call.settled")

C2_Witness ==
    \E c \in Calls :
        /\ Settled(c)
        /\ fc[c].st = "rejected"
        /\ fc[c].val \in Errors

\* C3: whatever the monitor does, emitStart and emitEnd return the event they
\* built (the one the monitor was given) and no exception or rejection of the
\* monitor escapes.
C3_UncheckedNeverThrows ==
    /\ unhandled = 0
    /\ \A i \in DOMAIN hcalls :
        /\ hcalls[i].ret.kind = "returned"
        /\ hcalls[i].ret.val = observed[i]

\* C4: the end event built by emitEnd and by emitEndChecked has
\* startedAt = startedOverride ?? base.startedAt, also when base.startedAt is
\* present and differs from the override.
C4_EndStartedAtIsOverrideOrBase ==
    /\ \A i \in DOMAIN hcalls :
        hcalls[i].helper = "emitEnd"
        => observed[i].startedAt =
              Coalesce(hcalls[i].started, Field(hcalls[i].base, "startedAt"))
    /\ chk.helper = "emitEndChecked"
        => chk.event.startedAt =
              Coalesce(chk.started, Field(chk.base, "startedAt"))

\* C5: emitStartChecked and emitEndChecked never reject; their result carries
\* the event the monitor was given, with proceed = false exactly when onEvent
\* threw, returned a promise that rejected, returned false or returned a
\* promise fulfilled with false, and proceed = true otherwise.
C5_CheckedNeverRejectsAndProceedIsNotFalse ==
    /\ chk.ret.st # "rejected"
    /\ chk.ret.st = "resolved"
        => /\ chk.ret.event = chk.event
           /\ chk.ret.proceed =
                ~(\/ chk.how = "threw"
                  \/ chk.mon.st = "rejected"
                  \/ (chk.mon.st = "fulfilled" /\ chk.mon.val = "false"))

C5_Witness ==
    /\ chk.helper = "emitEndChecked"
    /\ chk.ret.st = "resolved"
    /\ chk.how = "threw"
    /\ ~chk.ret.proceed

\* C6: within one call the monitor receives the start event and its handling
\* of it has settled before the bound callback is invoked; it receives the end
\* event only after the callback has settled, and the call settles only after
\* the monitor has the end event.
C6_StartThenCallbackThenEnd ==
    \A c \in Calls :
        /\ Happened(c, "fn.invoked")
            => /\ Before(c, "start.recv", "start.settled")
               /\ Before(c, "start.settled", "fn.invoked")
        /\ Happened(c, "end.recv")
            => /\ Before(c, "fn.invoked", "fn.settled")
               /\ Before(c, "fn.settled", "end.recv")
        /\ (Happened(c, "call.settled") /\ Happened(c, "fn.invoked"))
            => /\ Before(c, "end.recv", "end.settled")
               /\ Before(c, "end.settled", "call.settled")

C6_Witness ==
    \E c \in Calls :
        /\ Settled(c)
        /\ hist[c] = <<"start.recv", "start.settled", "fn.invoked", "fn.settled",
                       "end.recv", "end.settled", "call.settled">>

\* C7: every end event a call emits has the startedAt of the start event the
\* same call emitted, on the success and on the failure path, however far the
\* clock has moved in between.
C7_EndCarriesStartTimestamp ==
    \A c \in Calls :
        \A i \in EndEvents(c) :
            /\ sent[c][1].phase = "start"
            /\ sent[c][1].startedAt # None
            /\ sent[c][i].startedAt = sent[c][1].startedAt

C7_Witness ==
    \E c \in Calls :
        /\ EndEvents(c) # {}
        /\ fc[c].st = "rejected"
        /\ sent[c][2].endedAt # sent[c][1].startedAt

\* C8: a monitor that throws, rejects or returns false on the end event does
\* not change the outcome of the call: it resolves with the callback's value,
\* or rejects with the callback's error.
C8_EndMonitorFailureKeepsOutcome ==
    \A c \in Calls :
        (Settled(c) /\ endRes[c].st # "none"
            /\ (endRes[c].st = "rejected" \/ ~endRes[c].proceed))
        => outcome[c] =
              [st |-> IF fc[c].st = "fulfilled" THEN "resolved" ELSE "rejected",
               val |-> fc[c].val]

C8_Witness ==
    \E c \in Calls :
        /\ Settled(c)
        /\ endRes[c].st = "resolved"
        /\ ~endRes[c].proceed
        /\ fc[c].st = "rejected"

\* The caller triggered the cancellation handle while the callback of call c
\* was in flight.
AbortedInFlight(c) == Happened(c, "abort")

\* C9, as stated: once the cancellation handle is triggered while the callback
\* is in flight, the call fails: it cannot settle by resolving.
C9_CancelledCallFails ==
    \A c \in Calls :
        (AbortedInFlight(c) /\ Settled(c)) => outcome[c].st = "rejected"

\* C9, amended: the call only hands the handle to the callback.  If the
\* callback rejects after the handle was triggered in flight, an end event for
\* the call is eventually emitted, and once the monitor's handling of that
\* event has settled the call eventually rejects, with the callback's error.
C9_CancelledRejectionClosesTelemetry ==
    \A c \in Calls :
        /\ (AbortedInFlight(c) /\ fc[c].st = "rejected")
              ~> (EndEvents(c) # {})
        /\ (AbortedInFlight(c) /\ fc[c].st = "rejected"
                /\ EndEvents(c) # {} /\ Awaited(mon[c]))
              ~> (outcome[c] = [st |-> "rejected", val |-> fc[c].val])

C9_Witness ==
    \E c \in Calls :
        /\ AbortedInFlight(c)
        /\ fc[c].st = "rejected"
        /\ EndEvents(c) # {}
        /\ outcome[c].st = "rejected"

\* C10: for any sequence of emitStart / emitEnd calls on one monitor, the
\* monitor has been given exactly the events the calls returned, one per call
\* and in call order; and an emitEnd that passes the startedAt of an earlier
\* emitStart (in its base or as the override) yields an end event with that
\* startedAt.
C10_MonitorSeesReturnedEventsInOrder ==
    /\ Len(observed) = Len(hcalls)
    /\ \A i \in DOMAIN hcalls :
        hcalls[i].ret.kind = "returned" /\ hcalls[i].ret.val = observed[i]
    /\ \A i, j \in DOMAIN hcalls :
        (/\ i < j
         /\ hcalls[i].helper = "emitStart"
         /\ hcalls[j].helper = "emitEnd"
         /\ \/ hcalls[j].started = observed[i].startedAt
            \/ (hcalls[j].started = None
                /\ Field(hcalls[j].base, "startedAt") = observed[i].startedAt))
        => /\ observed[i].phase = "start"
           /\ observed[j].phase = "end"
           /\ observed[j].startedAt = observed[i].startedAt

\* The outcome the callback of call c alone determines: resolved with its
\* value, rejected with its error.
CallbackOutcome(c) ==
    [st |-> IF fc[c].st = "fulfilled" THEN "resolved" ELSE "rejected",
     val |-> fc[c].val]

\* C11: a provider constructed without a usage monitor has the no-op monitor,
\* which never vetoes and never fails: every call on it is admitted, invokes
\* the bound callback, and settles exactly as the callback did.
C11_DefaultMonitorNeverInterferes ==
    monitor = constructor_monitor("undefined")
    => \A c \in Calls :
        /\ startRes[c].st # "none"
            => (startRes[c].st = "resolved" /\ startRes[c].proceed)
        /\ endRes[c].st # "none"
            => (endRes[c].st = "resolved" /\ endRes[c].proceed)
        /\ pc[c] \notin {"idle", "awaitStart"} => received[c] = <<args[c]>>
        /\ Settled(c) => (Awaited(fc[c]) /\ outcome[c] = CallbackOutcome(c))

C11_Witness ==
    /\ monitor = constructor_monitor("undefined")
    /\ monitor = NoopUsageMonitor
    /\ \E c \in Calls :
        /\ Settled(c)
        /\ fc[c].st = "fulfilled"
        /\ fc[c].val = "false"
        /\ outcome[c] = [st |-> "resolved", val |-> "false"]

\* C13: when the start of a call is admitted, the bound callback is invoked
\* exactly once, with the context, name, params and cancellation handle the
\* caller passed; when the callback resolves with v, the call resolves with
\* exactly v, whether v is false, undefined or a truthy value.
C13_CallbackGetsCallerArgsAndValueIsReturned ==
    \A c \in Calls :
        /\ (startRes[c].st = "resolved" /\ startRes[c].proceed)
            => received[c] = <<args[c]>>
        /\ (Settled(c) /\ fc[c].st = "fulfilled")
            => outcome[c] = [st |-> "resolved", val |-> fc[c].val]

C13_Witness ==
    \E c \in Calls :
        /\ Settled(c)
        /\ startRes[c].proceed
        /\ args[c].abortController = "ac"
        /\ received[c] = <<args[c]>>
        /\ fc[c] = [st |-> "fulfilled", val |-> "undefined"]

StartEvents(c) == {i \in DOMAIN sent[c] : sent[c][i].phase = "start"}

\* C14: a call hands the monitor exactly one start event; it hands it no end
\* event while the callback has not settled and when the start was vetoed, and
\* exactly one end event once the start was admitted and the callback settled,
\* whether the callback resolved or rejected and whatever the monitor did on
\* the end event.
C14_OneStartAndOneEndPerAdmittedCall ==
    \A c \in Calls :
        /\ pc[c] = "idle" => sent[c] = <<>>
        /\ pc[c] # "idle" => Cardinality(StartEvents(c)) = 1
        /\ Cardinality(EndEvents(c)) <= 1
        /\ (startRes[c].st = "resolved" /\ ~startRes[c].proceed)
            => EndEvents(c) = {}
        /\ pc[c] \in {"awaitStart", "awaitFunctionCall"} => EndEvents(c) = {}
        /\ (startRes[c].st = "resolved" /\ startRes[c].proceed
                /\ pc[c] \in {"awaitEndTry", "awaitEndCatch", "done"})
            => (Awaited(fc[c]) /\ Cardinality(EndEvents(c)) = 1)

C14_Witness ==
    \E c \in Calls :
        /\ Settled(c)
        /\ fc[c].st = "fulfilled"
        /\ endRes[c].st = "resolved"
        /\ ~endRes[c].proceed
        /\ Cardinality(StartEvents(c)) = 1
        /\ Cardinality(EndEvents(c)) = 1

\* C15: when several calls on the same provider and monitor are in flight at
\* the same time, in any interleaving, every end event of a call carries the
\* start timestamp and the function name of that same call; a call whose start
\* was admitted invokes its callback and can always take its next step,
\* whatever the monitor did to another call; and a call settles as its own
\* start admission and its own callback determine.
C15_ConcurrentCallsDoNotInterfere ==
    \A c \in DOMAIN pc :
        /\ \A i \in DOMAIN sent[c] :
            /\ sent[c][i].metadata = args[c].name
            /\ sent[c][i].startedAt = sent[c][1].startedAt
        /\ (startRes[c].st = "resolved" /\ startRes[c].proceed)
            => received[c] = <<args[c]>>
        /\ (pc[c] = "awaitStart" /\ mon[c].st \in {"fulfilled", "rejected"})
            => ENABLED ResumeAfterStart(c)
        /\ (pc[c] = "awaitFunctionCall" /\ fc[c].st \in {"fulfilled", "rejected"})
            => ENABLED ResumeAfterFunctionCall(c)
        /\ (pc[c] \in {"awaitEndTry", "awaitEndCatch"}
                /\ mon[c].st \in {"fulfilled", "rejected"})
            => ENABLED ResumeAfterEnd(c)
        /\ Settled(c)
            => outcome[c] = IF startRes[c].proceed THEN CallbackOutcome(c)
                            ELSE [st |-> "resolved", val |-> "false"]

\* A call started after another call for a different function and was vetoed
\* while that one was still in flight; the earlier call has emitted its end
\* event and has not settled yet.
C15_Witness ==
    \E c, d \in DOMAIN pc :
        /\ c # d
        /\ args[c].name # args[d].name
        /\ pc[c] = "done"
        /\ ~startRes[c].proceed
        /\ pc[d] \in {"awaitEndTry", "awaitEndCatch"}
        /\ sent[d][1].startedAt[1] < sent[c][1].startedAt[1]
        /\ EndEvents(d) = {2}
        /\ sent[d][2].startedAt # sent[c][1].startedAt

\* Every unchecked helper call whose detached promise is pending has returned
\* the event it gave to the monitor.
UncheckedReturnedWhilePending ==
    \A i \in DOMAIN hcalls :
        hcalls[i].detached = "pending"
        => /\ hcalls[i].ret.kind = "returned"
           /\ hcalls[i].ret.val = observed[i]

\* C16: when every promise the monitor returns to a call and the promise of
\* the callback, if it was invoked, settle, the call of
\* callFunctionWithTelemetry settles too, by resolving or by rejecting; and
\* emitStart and emitEnd have returned their event while the promise the
\* monitor gave them is still pending, which it may stay for ever.
C16_CallSettlesAndUncheckedDoesNotWait ==
    /\ \A c \in Calls : (pc[c] # "idle") ~> Settled(c)
    /\ []UncheckedReturnedWhilePending

\* A call has settled after the monitor's promises and the callback's promise
\* had each been pending for a while.
C16_Witness ==
    \E c \in Calls :
        /\ Settled(c)
        /\ hist[c] = <<"start.recv", "start.settled", "fn.invoked", "fn.settled",
                       "end.recv", "end.settled", "call.settled">>
        /\ sent[c][2].endedAt # sent[c][1].startedAt

====
